---- MODULE Spec2Model ----
(***************************************************************************)
(* Response cache of the web assistant: CacheManager                       *)
(* (core/cache/cache_manager.py) on top of the cached_responses table      *)
(* reached through DatabaseRepository (core/database/repository.py).       *)
(***************************************************************************)
EXTENDS Integers, FiniteSets, Sequences, TLC

\* ------------------------------------------------------------------ bounds
MaxTime == 2
MaxHits == 3
MaxSessions == 4

\* a NULL column value (timestamps are 0..MaxTime)
NULL == -1

\* cache keys handed to the manager; "" is the falsy key of `if cache_key:`
Keys == {"", "a"}
\* the cache_key argument left out (None)
NoKey == "<None>"
\* the (cache_key, response) pairs callers store
PutInputs == {<<"", "t1", "r1">>, <<"a", "t1", "r1">>, <<"a", "t2", "r2">>}
\* the configurations (enabled, ttl, max_size) of CacheConfig that are explored
Configs == {<<FALSE, 0, 1>>, <<TRUE, 0, 0>>, <<TRUE, 0, 1>>, <<TRUE, 0, 2>>,
            <<TRUE, 1, 1>>, <<TRUE, 1, 2>>, <<TRUE, -2, 1>>}

VARIABLES
    rows,       \* the cached_responses table: a set of row records
    now,        \* datetime.utcnow()
    enabled,    \* CacheManager.enabled
    ttl,        \* CacheManager.ttl
    max_size,   \* CacheManager.max_size
    lastOp,     \* the last completed call and what it returned
    th,         \* the cache_response calls that worker threads have in progress
    gen,        \* the last two calls of generate_cache_key and their keys
    analysis,   \* the last two calls of analyze_with_llm and how they ended
    hashing,    \* the last two calls of Hasher.hash_text and how they ended
    sess,       \* the sessions get_session has opened and how the last one ended
    tm          \* the TaskManager: _should_stop, its tasks and its last call

vars == <<rows, now, enabled, ttl, max_size, lastOp, th, gen, analysis, hashing, sess, tm>>

\* ------------------------------------------------------------ the table
\* CachedResponse: the columns the cache operations read or write.  A row is
\* identified by its UNIQUE cache_key; the surrogate id is left out
CachedResponse(k, txt, resp, t, exp) ==
    [cache_key |-> k, input_text |-> txt, response |-> resp, hits |-> 0,
     last_hit |-> NULL, created_at |-> t, expires_at |-> exp, is_valid |-> TRUE]

NoRow == [cache_key |-> "", input_text |-> "", response |-> "", hits |-> 0,
          last_hit |-> NULL, created_at |-> NULL, expires_at |-> NULL,
          is_valid |-> FALSE]

Max(a, b) == IF a >= b THEN a ELSE b

\* ------------------------------------------------- values a call returns
\* the aggregates of a value that is not the dict of get_cache_stats
NoStats == [total_entries |-> 0, valid_entries |-> 0, total_hits |-> 0]

\* kind: "None", "obj" (an ORM instance), "int", "bool", "dict"
None == [kind |-> "None", val |-> 0, row |-> NoRow, expired |-> FALSE, detached |-> FALSE, stats |-> NoStats]
IntVal(n) == [kind |-> "int", val |-> n, row |-> NoRow, expired |-> FALSE, detached |-> FALSE, stats |-> NoStats]
BoolVal(b) == [kind |-> "bool", val |-> IF b THEN 1 ELSE 0, row |-> NoRow, expired |-> FALSE, detached |-> FALSE, stats |-> NoStats]
Obj(r) == [kind |-> "obj", val |-> 0, row |-> r, expired |-> FALSE, detached |-> FALSE, stats |-> NoStats]
\* the dict of get_cache_stats
Dict(total_entries, valid_entries, total_hits) ==
    [kind |-> "dict", val |-> total_entries, row |-> NoRow, expired |-> FALSE, detached |-> FALSE,
     stats |-> [total_entries |-> total_entries, valid_entries |-> valid_entries,
                total_hits |-> total_hits]]

\* sessionmaker(autocommit=False, autoflush=False, bind=engine): expire_on_commit
\* is not passed and keeps the library default
expire_on_commit == TRUE

\* get_session: commit when the body raised nothing (the commit expires every
\* instance of the session when expire_on_commit), else rollback and re-raise;
\* close in both cases, which detaches the instances
get_session(before, body) ==
    IF body.exc # "none"
    THEN [rows |-> before, ret |-> None, exc |-> body.exc]
    ELSE [rows |-> body.rows,
          ret |-> IF body.ret.kind = "obj"
                  THEN [body.ret EXCEPT !.expired = expire_on_commit, !.detached = TRUE]
                  ELSE body.ret,
          exc |-> "none"]

\* reading a column attribute of an ORM instance: an expired attribute is
\* reloaded through the session, which a detached instance does not have
AttrRaises(o) == o.kind = "obj" /\ o.expired /\ o.detached

\* the outcome of a body that the store refused
Fault(rs) == [rows |-> rs, ret |-> None, exc |-> "OperationalError"]

\* ---------------------------------------------------- DatabaseRepository
\* a plausible slip: an entry counts as live up to and including expires_at
Live_inclusive(r, t) == r.is_valid /\ (r.expires_at = NULL \/ r.expires_at >= t)

\* WHERE is_valid AND (expires_at IS NULL OR expires_at > utcnow())
Live(r, t) == r.is_valid /\ (r.expires_at = NULL \/ r.expires_at > t)

\* a plausible slip: cache_key is declared without unique=True
add_cached_response_no_unique(rs, k, txt, resp, ttl_seconds, t, fault) ==
    get_session(rs,
        IF fault THEN Fault(rs)
        ELSE LET expires_at == IF ttl_seconds # NULL /\ ttl_seconds # 0
                               THEN t + ttl_seconds ELSE NULL
                 cached == CachedResponse(k, txt, resp, t, expires_at)
             IN [rows |-> rs \cup {cached}, ret |-> Obj(cached), exc |-> "none"])

\* a plausible slip: the ttl is dropped and the entry never expires
add_cached_response_no_expiry(rs, k, txt, resp, ttl_seconds, t, fault) ==
    get_session(rs,
        IF fault THEN Fault(rs)
        ELSE IF \E r \in rs : r.cache_key = k
        THEN [rows |-> rs, ret |-> None, exc |-> "IntegrityError"]
        ELSE LET cached == CachedResponse(k, txt, resp, t, NULL)
             IN [rows |-> rs \cup {cached}, ret |-> Obj(cached), exc |-> "none"])

\* add_cached_response: INSERT; cache_key is UNIQUE
add_cached_response(rs, k, txt, resp, ttl_seconds, t, fault) ==
    get_session(rs,
        IF fault THEN Fault(rs)
        ELSE IF \E r \in rs : r.cache_key = k
        THEN [rows |-> rs, ret |-> None, exc |-> "IntegrityError"]
        ELSE LET expires_at == IF ttl_seconds # NULL /\ ttl_seconds # 0
                               THEN t + ttl_seconds ELSE NULL
                 cached == CachedResponse(k, txt, resp, t, expires_at)
             IN [rows |-> rs \cup {cached}, ret |-> Obj(cached), exc |-> "none"])

\* a plausible slip: a hit also restarts the age of the row
db_get_cached_response_touch(rs, k, t, fault) ==
    get_session(rs,
        IF fault THEN Fault(rs)
        ELSE LET found == {r \in rs : r.cache_key = k /\ Live(r, t)}
             IN IF found = {}
                THEN [rows |-> rs, ret |-> None, exc |-> "none"]
                ELSE LET cached == CHOOSE r \in found : TRUE
                         bumped == [cached EXCEPT !.hits = cached.hits + 1,
                                                  !.last_hit = t, !.created_at = t]
                     IN [rows |-> (rs \ {cached}) \cup {bumped},
                         ret |-> Obj(bumped), exc |-> "none"])

\* get_cached_response: SELECT the live row of the key, bump hits and last_hit
db_get_cached_response(rs, k, t, fault) ==
    get_session(rs,
        IF fault THEN Fault(rs)
        ELSE LET found == {r \in rs : r.cache_key = k /\ Live(r, t)}
             IN IF found = {}
                THEN [rows |-> rs, ret |-> None, exc |-> "none"]
                ELSE LET cached == CHOOSE r \in found : TRUE
                         bumped == [cached EXCEPT !.hits = cached.hits + 1,
                                                  !.last_hit = t]
                     IN [rows |-> (rs \ {cached}) \cup {bumped},
                         ret |-> Obj(bumped), exc |-> "none"])

\* a plausible slip: the WHERE clause is built even when no key is given
invalidate_cache_always_where(rs, k, fault) ==
    get_session(rs,
        IF fault THEN Fault(rs)
        ELSE LET matched == {r \in rs : r.cache_key = k}
             IN [rows |-> (rs \ matched) \cup {[r EXCEPT !.is_valid = FALSE] : r \in matched},
                 ret |-> IntVal(Cardinality(matched)), exc |-> "none"])

\* a plausible slip: a tombstoned row also loses its hit count
invalidate_cache_reset_hits(rs, k, fault) ==
    get_session(rs,
        IF fault THEN Fault(rs)
        ELSE LET matched == IF k # NoKey /\ k # "" THEN {r \in rs : r.cache_key = k} ELSE rs
             IN [rows |-> (rs \ matched) \cup
                          {[r EXCEPT !.is_valid = FALSE, !.hits = 0] : r \in matched},
                 ret |-> IntVal(Cardinality(matched)), exc |-> "none"])

\* invalidate_cache: UPDATE ... SET is_valid = 0 [WHERE cache_key = k];
\* rowcount is the number of rows the UPDATE matched
invalidate_cache(rs, k, fault) ==
    get_session(rs,
        IF fault THEN Fault(rs)
        ELSE LET matched == IF k # NoKey /\ k # "" THEN {r \in rs : r.cache_key = k} ELSE rs
             IN [rows |-> (rs \ matched) \cup {[r EXCEPT !.is_valid = FALSE] : r \in matched},
                 ret |-> IntVal(Cardinality(matched)), exc |-> "none"])

\* a plausible slip: the purge spares the tombstoned rows
Expired_valid_only(r, t) == r.is_valid /\ r.expires_at # NULL /\ r.expires_at < t

\* a plausible slip: the purge takes the row whose expires_at is the present time
Expired_inclusive(r, t) == r.expires_at # NULL /\ r.expires_at <= t

\* WHERE expires_at IS NOT NULL AND expires_at < utcnow()
Expired(r, t) == r.expires_at # NULL /\ r.expires_at < t

\* clean_expired_cache: DELETE the rows whose expires_at is in the past
db_clean_expired_cache(rs, t, fault) ==
    get_session(rs,
        IF fault THEN Fault(rs)
        ELSE LET gone == {r \in rs : Expired(r, t)}
             IN [rows |-> rs \ gone, ret |-> IntVal(Cardinality(gone)), exc |-> "none"])


\* ------------------------------------------------------------ CacheManager
\* what a manager call did: the table it leaves, the value it returns, whether
\* an exception left the call, the value the repository handed back, how many
\* rows the expiry purge deleted and the cache_keys of the rows that the
\* staleness step of an eviction deleted
Outcome(rs, ret, raised, dbret, purged, evicted) ==
    [rows |-> rs, ret |-> ret, raised |-> raised, dbret |-> dbret,
     purged |-> purged, evicted |-> evicted]

\* a plausible slip: the enabled switch is not consulted
get_cached_response_no_switch(rs, k, t, fault) ==
    LET cached == db_get_cached_response(rs, k, t, fault)
    IN IF cached.exc # "none"
       THEN Outcome(cached.rows, None, FALSE, None, 0, {})
       ELSE IF cached.ret.kind = "obj" /\ AttrRaises(cached.ret)
       THEN Outcome(cached.rows, None, FALSE, cached.ret, 0, {})
       ELSE Outcome(cached.rows, cached.ret, FALSE, cached.ret, 0, {})

\* get_cached_response: the log line of a hit reads cached.hits inside the try
get_cached_response(rs, k, t, fault) ==
    IF ~enabled THEN Outcome(rs, None, FALSE, None, 0, {})
    ELSE LET cached == db_get_cached_response(rs, k, t, fault)
         IN IF cached.exc # "none"
            THEN Outcome(cached.rows, None, FALSE, None, 0, {})
            ELSE IF cached.ret.kind = "obj" /\ AttrRaises(cached.ret)
            THEN Outcome(cached.rows, None, FALSE, cached.ret, 0, {})
            ELSE Outcome(cached.rows, cached.ret, FALSE, cached.ret, 0, {})

\* clean_expired_cache: 0 when the store raises
clean_expired_cache(rs, t, fault) ==
    LET r == db_clean_expired_cache(rs, t, fault)
    IN IF r.exc # "none"
       THEN Outcome(r.rows, IntVal(0), FALSE, None, 0, {})
       ELSE Outcome(r.rows, r.ret, FALSE, r.ret, r.ret.val, {})

\* _get_cache_size: COUNT(id) WHERE is_valid
cache_size(rs) == Cardinality({r \in rs : r.is_valid})

\* a plausible slip: never-hit entries are taken as the most recently used
Precedes_nulls_last(a, b) ==
    \/ a.last_hit # NULL /\ b.last_hit = NULL
    \/ a.last_hit # NULL /\ b.last_hit # NULL /\ a.last_hit < b.last_hit
    \/ a.last_hit = b.last_hit /\ a.created_at < b.created_at

\* ORDER BY last_hit ASC, created_at ASC; SQLite sorts NULL before any value
Precedes(a, b) ==
    \/ a.last_hit = NULL /\ b.last_hit # NULL
    \/ a.last_hit # NULL /\ b.last_hit # NULL /\ a.last_hit < b.last_hit
    \/ a.last_hit = b.last_hit /\ a.created_at < b.created_at

\* SELECT id ... ORDER BY ... LIMIT n: every set of ids the statement may
\* return (rows that tie in the order come in any order)
OldIds(rs, n) ==
    LET m == IF n < Cardinality(rs) THEN n ELSE Cardinality(rs)
    IN {S \in SUBSET rs : /\ Cardinality(S) = m
                          /\ \A s \in S : \A r \in rs \ S : ~Precedes(r, s)}

\* a plausible slip: a tenth of max_size without the floor of 1
RemoveCount_no_floor(m) == m \div 10

\* remove_count = max(1, int(self.max_size * 0.1))
RemoveCount(m) == Max(1, m \div 10)

\* a plausible slip: the staleness step runs whatever the purge removed
clean_old_entries_no_early_return(rs, t, faultPurge, faultEvict) ==
    LET remove_count == RemoveCount(max_size)
        exp == clean_expired_cache(rs, t, faultPurge)
    IN IF faultEvict
       THEN {[rows |-> exp.rows, purged |-> exp.purged, evicted |-> {}, exc |-> "OperationalError"]}
       ELSE {[rows |-> exp.rows \ old, purged |-> exp.purged, evicted |-> {r.cache_key : r \in old}, exc |-> "none"] :
                old \in OldIds(exp.rows, remove_count)}

\* a plausible slip: the staleness step is limited to remove_count, not to what
\* the purge left of it
clean_old_entries_full_limit(rs, t, faultPurge, faultEvict) ==
    LET remove_count == RemoveCount(max_size)
        exp == clean_expired_cache(rs, t, faultPurge)
        expired == exp.ret.val
    IN IF expired >= remove_count
       THEN {[rows |-> exp.rows, purged |-> exp.purged, evicted |-> {}, exc |-> "none"]}
       ELSE IF faultEvict
       THEN {[rows |-> exp.rows, purged |-> exp.purged, evicted |-> {}, exc |-> "OperationalError"]}
       ELSE {[rows |-> exp.rows \ old, purged |-> exp.purged, evicted |-> {r.cache_key : r \in old}, exc |-> "none"] :
                old \in OldIds(exp.rows, remove_count)}

\* _clean_old_entries: purge the expired rows, then delete the oldest rows until
\* remove_count are gone.  faultPurge, faultEvict: the store raises in that step
clean_old_entries(rs, t, faultPurge, faultEvict) ==
    LET remove_count == RemoveCount(max_size)
        exp == clean_expired_cache(rs, t, faultPurge)
        expired == exp.ret.val
    IN IF expired >= remove_count
       THEN {[rows |-> exp.rows, purged |-> exp.purged, evicted |-> {}, exc |-> "none"]}
       ELSE IF faultEvict
       THEN {[rows |-> exp.rows, purged |-> exp.purged, evicted |-> {}, exc |-> "OperationalError"]}
       ELSE {[rows |-> exp.rows \ old, purged |-> exp.purged, evicted |-> {r.cache_key : r \in old}, exc |-> "none"] :
                old \in OldIds(exp.rows, remove_count - expired)}

\* a plausible slip: the entry is inserted first and the eviction runs after
cache_response_insert_first(rs, k, txt, resp, t, fault) ==
    IF ~enabled THEN {Outcome(rs, None, FALSE, None, 0, {})}
    ELSE IF fault = 1 THEN {Outcome(rs, None, FALSE, None, 0, {})}
    ELSE LET current_size == cache_size(rs)
             ttl_seconds == IF ttl > 0 THEN ttl ELSE NULL
             cached == add_cached_response(rs, k, txt, resp, ttl_seconds, t, fault = 4)
             cleaned == IF current_size >= max_size
                        THEN clean_old_entries(cached.rows, t, fault = 2, fault = 3)
                        ELSE {[rows |-> cached.rows, purged |-> 0, evicted |-> {}, exc |-> "none"]}
         IN IF cached.exc # "none"
            THEN {Outcome(cached.rows, None, FALSE, None, 0, {})}
            ELSE {IF c.exc # "none"
                  THEN Outcome(c.rows, None, FALSE, None, c.purged, c.evicted)
                  ELSE Outcome(c.rows, cached.ret, FALSE, cached.ret, c.purged, c.evicted)
                  : c \in cleaned}

\* a plausible slip: self.ttl is handed to the repository as it is
cache_response_raw_ttl(rs, k, txt, resp, t, fault) ==
    IF ~enabled THEN {Outcome(rs, None, FALSE, None, 0, {})}
    ELSE IF fault = 1 THEN {Outcome(rs, None, FALSE, None, 0, {})}
    ELSE LET current_size == cache_size(rs)
             cleaned == IF current_size >= max_size
                        THEN clean_old_entries(rs, t, fault = 2, fault = 3)
                        ELSE {[rows |-> rs, purged |-> 0, evicted |-> {}, exc |-> "none"]}
         IN {IF c.exc # "none"
             THEN Outcome(c.rows, None, FALSE, None, c.purged, c.evicted)
             ELSE LET cached == add_cached_response(c.rows, k, txt, resp, ttl, t, fault = 4)
                  IN IF cached.exc # "none"
                     THEN Outcome(cached.rows, None, FALSE, None, c.purged, c.evicted)
                     ELSE Outcome(cached.rows, cached.ret, FALSE, cached.ret,
                                  c.purged, c.evicted)
             : c \in cleaned}

\* cache_response.  fault: 0 none, or the store call that raises:
\* 1 the size query, 2 the expiry purge, 3 the staleness delete, 4 the insert
cache_response(rs, k, txt, resp, t, fault) ==
    IF ~enabled THEN {Outcome(rs, None, FALSE, None, 0, {})}
    ELSE IF fault = 1 THEN {Outcome(rs, None, FALSE, None, 0, {})}
    ELSE LET current_size == cache_size(rs)
             cleaned == IF current_size >= max_size
                        THEN clean_old_entries(rs, t, fault = 2, fault = 3)
                        ELSE {[rows |-> rs, purged |-> 0, evicted |-> {}, exc |-> "none"]}
             ttl_seconds == IF ttl > 0 THEN ttl ELSE NULL
         IN {IF c.exc # "none"
             THEN Outcome(c.rows, None, FALSE, None, c.purged, c.evicted)
             ELSE LET cached == add_cached_response(c.rows, k, txt, resp, ttl_seconds, t, fault = 4)
                  IN IF cached.exc # "none"
                     THEN Outcome(cached.rows, None, FALSE, None, c.purged, c.evicted)
                     ELSE Outcome(cached.rows, cached.ret, FALSE, cached.ret,
                                  c.purged, c.evicted)
             : c \in cleaned}

\* invalidate_cache_entry: count > 0, False when the store raises
invalidate_cache_entry(rs, k, fault) ==
    LET r == invalidate_cache(rs, k, fault)
    IN IF r.exc # "none"
       THEN Outcome(r.rows, BoolVal(FALSE), FALSE, None, 0, {})
       ELSE Outcome(r.rows, BoolVal(r.ret.val > 0), FALSE, r.ret, 0, {})

\* a plausible slip: no try/except around the repository call
clear_cache_no_try(rs, fault) ==
    LET r == invalidate_cache(rs, NoKey, fault)
    IN IF r.exc # "none"
       THEN Outcome(r.rows, None, TRUE, None, 0, {})
       ELSE Outcome(r.rows, r.ret, FALSE, r.ret, 0, {})

\* clear_cache: invalidate_cache() without a key, 0 when the store raises
clear_cache(rs, fault) ==
    LET r == invalidate_cache(rs, NoKey, fault)
    IN IF r.exc # "none"
       THEN Outcome(r.rows, IntVal(0), FALSE, None, 0, {})
       ELSE Outcome(r.rows, r.ret, FALSE, r.ret, 0, {})

\* SUM(hits); `or 0` turns the NULL of an empty table into 0
RECURSIVE SumHits(_)
SumHits(rs) ==
    IF rs = {} THEN 0
    ELSE LET r == CHOOSE x \in rs : TRUE IN r.hits + SumHits(rs \ {r})

\* a plausible slip: total_entries is counted with the is_valid filter too
get_cache_stats_valid_only(rs, fault) ==
    LET valid == Cardinality({r \in rs : r.is_valid})
        r == get_session(rs, IF fault THEN Fault(rs)
                             ELSE [rows |-> rs, ret |-> Dict(valid, valid, SumHits(rs)),
                                   exc |-> "none"])
    IN IF r.exc # "none"
       THEN Outcome(r.rows, None, TRUE, None, 0, {})
       ELSE Outcome(r.rows, r.ret, FALSE, r.ret, 0, {})

\* get_cache_stats: three aggregate queries in one session, no try/except
get_cache_stats(rs, fault) ==
    LET r == get_session(rs, IF fault THEN Fault(rs)
                             ELSE [rows |-> rs,
                                   ret |-> Dict(Cardinality(rs),
                                                Cardinality({x \in rs : x.is_valid}),
                                                SumHits(rs)),
                                   exc |-> "none"])
    IN IF r.exc # "none"
       THEN Outcome(r.rows, None, TRUE, None, 0, {})
       ELSE Outcome(r.rows, r.ret, FALSE, r.ret, 0, {})

\* ------------------------------------------------- Hasher and cache keys
\* A string is the sequence of its characters.
\* the separator of create_cache_key
Sep == "|"

\* model left out (None)
NoModel == <<"<None>">>

\* the arguments (text, provider, prompt_type, model) of generate_cache_key
\* that are explored: a text and a provider name with and without the
\* separator in them, and the model left out, empty or named
KeyInputs ==
    {<<<<"a">>, <<"p">>, <<"t">>, NoModel>>,
     <<<<"a">>, <<"p">>, <<"t">>, <<>>>>,
     <<<<"a">>, <<"p">>, <<"t">>, <<"m">>>>,
     <<<<"a", Sep, "p">>, <<"p">>, <<"t">>, NoModel>>,
     <<<<"a">>, <<"p", Sep, "p">>, <<"t">>, NoModel>>}

\* "|".join(str(arg) for arg in args); str() of a string is the string
RECURSIVE Join(_)
Join(args) ==
    IF args = <<>> THEN <<>>
    ELSE IF Len(args) = 1 THEN args[1]
    ELSE args[1] \o <<Sep>> \o Join(Tail(args))

\* Hasher.md5: the hex digest of the text, taken as injective on the text (the
\* digest is the text under a tag)
md5(text) == <<"md5">> \o text

\* Hasher.sha256: the hex digest of the text, likewise
sha256(text) == <<"sha256">> \o text

\* the algorithm names and texts handed to hash_text
Algorithms == {"md5", "sha256", "sha1", ""}
HashTexts == {<<>>, <<"a">>, <<"a", "b">>}

\* a plausible slip: an unknown algorithm falls back to the default, md5
hash_text_fallback(text, algorithm) ==
    IF algorithm = "sha256"
    THEN [ret |-> sha256(text), exc |-> "none"]
    ELSE [ret |-> md5(text), exc |-> "none"]

\* Hasher.hash_text: the digest, or ValueError for an unknown algorithm
hash_text(text, algorithm) ==
    IF algorithm = "md5"
    THEN [ret |-> md5(text), exc |-> "none"]
    ELSE IF algorithm = "sha256"
    THEN [ret |-> sha256(text), exc |-> "none"]
    ELSE [ret |-> <<>>, exc |-> "ValueError"]

\* the record of a call of hash_text: its arguments, the digest it returned
\* (<<>>: none) and the exception that left it
HashCall(text, algorithm) ==
    [made |-> TRUE, text |-> text, algorithm |-> algorithm,
     ret |-> hash_text(text, algorithm).ret,
     raised |-> hash_text(text, algorithm).exc]

NoHashCall ==
    [made |-> FALSE, text |-> <<>>, algorithm |-> "", ret |-> <<>>, raised |-> "none"]

NoHashing == [n |-> 0, cur |-> NoHashCall, prev |-> NoHashCall]

\* Hasher.create_cache_key: the string that is hashed, and its digest
combined(args) == Join(args)
create_cache_key(args) == md5(combined(args))

\* the component list of generate_cache_key; `if model:` is false for None
\* and for the empty string
components(text, provider, prompt_type, model) ==
    IF model # NoModel /\ model # <<>>
    THEN <<text, provider, prompt_type, model>>
    ELSE <<text, provider, prompt_type>>

\* a plausible slip: the time of the call (in unary) is made part of the key
generate_cache_key_salted(text, provider, prompt_type, model) ==
    create_cache_key(Append(components(text, provider, prompt_type, model),
                            [i \in 1..now |-> "1"]))

\* a plausible slip: the model is never appended to the components
generate_cache_key_no_model(text, provider, prompt_type, model) ==
    create_cache_key(<<text, provider, prompt_type>>)

\* CacheManager.generate_cache_key
generate_cache_key(text, provider, prompt_type, model) ==
    create_cache_key(components(text, provider, prompt_type, model))

\* the record of a call of generate_cache_key: its arguments, the string it
\* hashed and the key it returned
KeyCall(text, provider, prompt_type, model) ==
    [made |-> TRUE, args |-> <<text, provider, prompt_type, model>>,
     hashed |-> combined(components(text, provider, prompt_type, model)),
     key |-> generate_cache_key(text, provider, prompt_type, model)]

NoKeyCall ==
    [made |-> FALSE, args |-> <<>>, hashed |-> <<>>, key |-> <<>>]

NoGen == [n |-> 0, cur |-> NoKeyCall, prev |-> NoKeyCall]

\* ------------------------------------------------------ WebAnalyzerService
\* DatabaseRepository sets engine and SessionLocal and defines get_session; it
\* has no attribute `session`, so reading db_repository.session raises
\* AttributeError
repository_has_session == FALSE

\* settings.llm.provider
provider == <<"p">>

\* the (text, prompt_type) pairs that are analysed
AnalyzeInputs == {<<<<"a">>, <<"t">>>>, <<<<"b">>, <<"t">>>>, <<<<"a">>, <<"s">>>>}

\* the model names the configured LLM client may answer with (the 'model' of
\* its result; the service passes it to add_llm_request and to cache_response
\* as a column value, never to generate_cache_key)
LlmModels == {<<"m1">>, <<"m2">>}

\* what the LLM client does with a request: it is not initialised ("none"),
\* its call raises ("error"), or it answers with a response
LlmOutcomes == {"none", "error", "r1", "r2"}

\* how a call of analyze_with_llm ended: the table it leaves, whether the LLM
\* was called, the dict it returned (from_cache, response) or the exception
\* that left it, and whether cache_response stored the response
Analysis(rs, key, called, from_cache, response, raised, stored) ==
    [rows |-> rs, key |-> key, called |-> called, from_cache |-> from_cache,
     response |-> response, raised |-> raised, stored |-> stored]

\* the except branch of analyze_with_llm: its first statement after the log
\* line is db_repository.session.rollback(); then the failed request is
\* recorded and LLMError raised
analyze_except(rs, key, called) ==
    IF repository_has_session
    THEN Analysis(rs, key, called, FALSE, "", "LLMError", FALSE)
    ELSE Analysis(rs, key, called, FALSE, "", "AttributeError", FALSE)

\* analyze_with_llm.  llm: what the LLM client does (LlmOutcomes)
analyze_with_llm(rs, text, prompt_type, use_cache, llm, t) ==
    LET cache_key == generate_cache_key(text, provider, prompt_type, NoModel)
        looked == IF use_cache /\ enabled
                  THEN get_cached_response(rs, cache_key, t, FALSE)
                  ELSE Outcome(rs, None, FALSE, None, 0, {})
        cached == looked.ret
    IN IF llm = "none"
       THEN {Analysis(rs, cache_key, FALSE, FALSE, "", "LLMError", FALSE)}
       ELSE IF cached.kind = "obj"
       THEN IF AttrRaises(cached)
            THEN {Analysis(looked.rows, cache_key, FALSE, FALSE, "",
                           "DetachedInstanceError", FALSE)}
            ELSE {Analysis(looked.rows, cache_key, FALSE, TRUE,
                           cached.row.response, "none", FALSE)}
       ELSE IF llm = "error"
       THEN {analyze_except(looked.rows, cache_key, TRUE)}
       \* add_llm_request, then self.db_repository.session.commit()
       ELSE IF ~repository_has_session
       THEN {analyze_except(looked.rows, cache_key, TRUE)}
       ELSE IF use_cache /\ enabled
       THEN {IF expire_on_commit   \* llm_request.id of the log line
             THEN analyze_except(out.rows, cache_key, TRUE)
             ELSE Analysis(out.rows, cache_key, TRUE, FALSE, llm, "none",
                           out.ret.kind = "obj")
             : out \in cache_response(looked.rows, cache_key, text, llm, t, 0)}
       ELSE {IF expire_on_commit
             THEN analyze_except(looked.rows, cache_key, TRUE)
             ELSE Analysis(looked.rows, cache_key, TRUE, FALSE, llm, "none", FALSE)}

\* the record of a call of analyze_with_llm
AnalysisCall(text, prompt_type, model, use_cache, llm, out) ==
    [made |-> TRUE, text |-> text, prompt_type |-> prompt_type, model |-> model,
     use_cache |-> use_cache, llm |-> llm, key |-> out.key,
     called |-> out.called, from_cache |-> out.from_cache,
     response |-> out.response, raised |-> out.raised, stored |-> out.stored]

NoAnalysisCall ==
    [made |-> FALSE, text |-> <<>>, prompt_type |-> <<>>, model |-> <<>>,
     use_cache |-> FALSE,
     llm |-> "none", key |-> <<>>, called |-> FALSE, from_cache |-> FALSE,
     response |-> "", raised |-> "none", stored |-> FALSE]

NoAnalysis == [n |-> 0, cur |-> NoAnalysisCall, prev |-> NoAnalysisCall]

\* -------------------------------------------------- the scope of a session
\* how the body of a `with self.get_session()` block may end: it raises nothing,
\* it raises an error of the store (subclasses of Exception), or an exception
\* that is not an Exception reaches it (KeyboardInterrupt)
BodyOutcomes == {"none", "OperationalError", "IntegrityError", "KeyboardInterrupt"}

\* how session.commit() may end: the flush of the pending UPDATE or the COMMIT
\* may be refused by the store
CommitOutcomes == {"none", "OperationalError"}

\* isinstance(e, Exception)
IsException(e) == e \in {"OperationalError", "IntegrityError"}

\* how a session ended: which of commit(), rollback() and close() were called,
\* whether the transaction was committed, and the exception the caller got
SessionEnd(body, commit_called, committed, rollback_called, closed, raised) ==
    [made |-> TRUE, body |-> body, commit_called |-> commit_called,
     committed |-> committed, rollback_called |-> rollback_called,
     closed |-> closed, raised |-> raised]

NoSessionEnd ==
    [made |-> FALSE, body |-> "none", commit_called |-> FALSE, committed |-> FALSE,
     rollback_called |-> FALSE, closed |-> FALSE, raised |-> "none"]

\* a plausible slip: close() at the end of the try block, not in a finally
get_session_exit_no_finally(body, commit) ==
    IF body = "none"
    THEN IF commit = "none"
         THEN SessionEnd(body, TRUE, TRUE, FALSE, TRUE, "none")
         ELSE SessionEnd(body, TRUE, FALSE, TRUE, FALSE, commit)
    ELSE IF IsException(body)
    THEN SessionEnd(body, FALSE, FALSE, TRUE, FALSE, body)
    ELSE SessionEnd(body, FALSE, FALSE, FALSE, FALSE, body)

\* get_session after the yield: commit() when the body raised nothing; an
\* Exception of the body or of commit() is caught, rollback() is called and the
\* exception is raised again; close() runs in the finally
get_session_exit(body, commit) ==
    IF body = "none"
    THEN IF commit = "none"
         THEN SessionEnd(body, TRUE, TRUE, FALSE, TRUE, "none")
         ELSE SessionEnd(body, TRUE, FALSE, TRUE, TRUE, commit)
    ELSE IF IsException(body)
    THEN SessionEnd(body, FALSE, FALSE, TRUE, TRUE, body)
    ELSE SessionEnd(body, FALSE, FALSE, FALSE, TRUE, body)

\* no session has been opened yet
NoSession ==
    [pc |-> "idle", opened |-> 0, closed |-> 0, commits |-> 0, rollbacks |-> 0,
     last |-> NoSessionEnd]

\* -------------------------------------------------------------- TaskManager
\* the tasks the GUI may start
TaskIds == {"t1", "t2", "t3"}

\* a task nobody has started; pool: it runs on the QThreadPool; is_running:
\* WorkerThread._is_running
NewTask == [state |-> "new", pool |-> FALSE, is_running |-> FALSE]

\* the record of a call of the TaskManager
TaskCall(name, t, ret) == [op |-> name, task |-> t, ret |-> ret, n |-> 1 - tm.last.n]

\* TaskManager.__init__; stopping: the tasks that were running when stop_all
\* was last called and have not ended since
NoTasks ==
    [should_stop |-> FALSE, task |-> [t \in TaskIds |-> NewTask], active_threads |-> {},
     stopping |-> {}, last |-> [op |-> "init", task |-> "", ret |-> FALSE, n |-> 0]]

\* ------------------------------------------------------------------ actions
\* the record of a completed call; fresh: no row had the key when it began;
\* n alternates from one call to the next, so that a repeated call shows
Op(name, k, resp, fault, out) ==
    [op |-> name, key |-> k, resp |-> resp, fault |-> fault,
     fresh |-> ~\E r \in rows : r.cache_key = k, n |-> 1 - lastOp.n,
     ret |-> out.ret, raised |-> out.raised, dbret |-> out.dbret,
     purged |-> out.purged, evicted |-> out.evicted]

NoOp ==
    [op |-> "init", key |-> "", resp |-> "", fault |-> 0, fresh |-> TRUE, n |-> 0,
     ret |-> None, raised |-> FALSE, dbret |-> None, purged |-> 0, evicted |-> {}]

\* the worker threads of the pool that call the cache
Workers == {"w1", "w2"}

\* a worker's call of cache_response: where it is, its arguments and locals
\* (current_size, expired, old_ids), the value returned, the cache_keys of the
\* rows its eviction deleted, and whether the call overlapped the other one
Idle ==
    [pc |-> "idle", key |-> "", text |-> "", resp |-> "", size |-> 0, expired |-> 0,
     old |-> {}, ret |-> None, evicted |-> {}, overlapped |-> FALSE]

\* the table a manager finds when it is constructed: empty, or (the table
\* outlives the process) an entry that an earlier run with the cache enabled
\* stored and that the present run, with the cache disabled, still finds
StoredBefore(on) ==
    IF on THEN {{}} ELSE {{}, {CachedResponse("a", "t1", "r1", 0, NULL)}}

Init ==
    /\ \E c \in Configs : enabled = c[1] /\ ttl = c[2] /\ max_size = c[3]
    /\ rows \in StoredBefore(enabled)
    /\ now = 0
    /\ lastOp = NoOp
    /\ th = [w \in Workers |-> Idle]
    /\ gen = NoGen
    /\ analysis = NoAnalysis
    /\ hashing = NoHashing
    /\ sess = NoSession
    /\ tm = NoTasks

\* SUM(hits) over the table
TotalHits(rs) == Cardinality(UNION {{<<r.cache_key, i>> : i \in 1..r.hits} : r \in rs})

Tick ==
    /\ now < MaxTime
    /\ now' = now + 1
    /\ UNCHANGED <<rows, enabled, ttl, max_size, lastOp, th, gen, analysis, hashing, sess, tm>>

\* whether cache_response makes the store call that fault names
FaultReached(rs, t, fault) ==
    CASE fault = 0 -> TRUE
      [] fault \in {1, 4} -> enabled
      [] fault = 2 -> enabled /\ cache_size(rs) >= max_size
      [] fault = 3 -> /\ enabled /\ cache_size(rs) >= max_size
                      /\ Cardinality({r \in rs : Expired(r, t)}) < RemoveCount(max_size)
      [] OTHER -> FALSE

\* Each action is one call of a CacheManager method by the analyzer service or
\* a script.  F is the set of store calls that may raise during the call
\* (0: none raises).
GetCachedResponse(F) ==
    \E k \in Keys, fault \in F :
        /\ TotalHits(rows) < MaxHits
        /\ fault # 0 => enabled
        /\ LET out == get_cached_response(rows, k, now, fault # 0)
           IN /\ rows' = out.rows
              /\ lastOp' = Op("get", k, "", fault, out)
        /\ UNCHANGED <<now, enabled, ttl, max_size, th, gen, analysis, hashing, sess, tm>>

CacheResponse(F) ==
    \E in \in PutInputs, fault \in {f \in F : FaultReached(rows, now, f)} :
        \E out \in cache_response(rows, in[1], in[2], in[3], now, fault) :
            /\ rows' = out.rows
            /\ lastOp' = Op("put", in[1], in[3], fault, out)
            /\ UNCHANGED <<now, enabled, ttl, max_size, th, gen, analysis, hashing, sess, tm>>

InvalidateCacheEntry(F) ==
    \E k \in Keys, fault \in F :
        /\ LET out == invalidate_cache_entry(rows, k, fault # 0)
           IN /\ rows' = out.rows
              /\ lastOp' = Op("invalidate", k, "", fault, out)
        /\ UNCHANGED <<now, enabled, ttl, max_size, th, gen, analysis, hashing, sess, tm>>

ClearCache(F) ==
    \E fault \in F :
        /\ LET out == clear_cache(rows, fault # 0)
           IN /\ rows' = out.rows
              /\ lastOp' = Op("clear", "", "", fault, out)
        /\ UNCHANGED <<now, enabled, ttl, max_size, th, gen, analysis, hashing, sess, tm>>

CleanExpiredCache(F) ==
    \E fault \in F :
        /\ LET out == clean_expired_cache(rows, now, fault # 0)
           IN /\ rows' = out.rows
              /\ lastOp' = Op("purge", "", "", fault, out)
        /\ UNCHANGED <<now, enabled, ttl, max_size, th, gen, analysis, hashing, sess, tm>>

GetCacheStats(F) ==
    \E fault \in F :
        /\ LET out == get_cache_stats(rows, fault # 0)
           IN /\ rows' = out.rows
              /\ lastOp' = Op("stats", "", "", fault, out)
        /\ UNCHANGED <<now, enabled, ttl, max_size, th, gen, analysis, hashing, sess, tm>>

\* the store answers every call
Next ==
    \/ Tick
    \/ GetCachedResponse({0})
    \/ CacheResponse({0})
    \/ InvalidateCacheEntry({0})
    \/ ClearCache({0})
    \/ CleanExpiredCache({0})
    \/ GetCacheStats({0})

Spec == Init /\ [][Next]_vars

\* the store may raise in any call
NextFault ==
    \/ Tick
    \/ GetCachedResponse({0, 1})
    \/ CacheResponse(0..4)
    \/ InvalidateCacheEntry({0, 1})
    \/ ClearCache({0, 1})
    \/ CleanExpiredCache({0, 1})
    \/ GetCacheStats({0, 1})

InitFault ==
    /\ rows = {}
    /\ now = 0
    /\ enabled = TRUE /\ ttl = 1 /\ max_size = 1
    /\ lastOp = NoOp
    /\ th = [w \in Workers |-> Idle]
    /\ gen = NoGen
    /\ analysis = NoAnalysis
    /\ hashing = NoHashing
    /\ sess = NoSession
    /\ tm = NoTasks

SpecFault == InitFault /\ [][NextFault]_vars

\* ------------------------------------------- keys derived between cache calls
\* a call of generate_cache_key by the analyzer service; n alternates from one
\* call to the next
GenerateCacheKey ==
    \E in \in KeyInputs :
        /\ gen' = [n |-> 1 - gen.n,
                   cur |-> KeyCall(in[1], in[2], in[3], in[4]),
                   prev |-> gen.cur]
        /\ UNCHANGED <<rows, now, enabled, ttl, max_size, lastOp, th, analysis, hashing, sess, tm>>

InitKey ==
    /\ rows = {}
    /\ now = 0
    /\ enabled = TRUE /\ ttl = 0 /\ max_size = 1
    /\ lastOp = NoOp
    /\ th = [w \in Workers |-> Idle]
    /\ gen = NoGen
    /\ analysis = NoAnalysis
    /\ hashing = NoHashing
    /\ sess = NoSession
    /\ tm = NoTasks

NextKey ==
    \/ GenerateCacheKey
    \/ Tick
    \/ CacheResponse({0})
    \/ ClearCache({0})

SpecKey == InitKey /\ [][NextKey]_vars

\* ------------------------------------------------ analyses through the cache
\* a call of analyze_with_llm from the GUI; n alternates from one call to the
\* next
AnalyzeWithLlm ==
    \E in \in AnalyzeInputs, model \in LlmModels, use_cache \in BOOLEAN, llm \in LlmOutcomes :
        \E out \in analyze_with_llm(rows, in[1], in[2], use_cache, llm, now) :
            /\ rows' = out.rows
            /\ analysis' = [n |-> 1 - analysis.n,
                            cur |-> AnalysisCall(in[1], in[2], model, use_cache, llm, out),
                            prev |-> analysis.cur]
            /\ UNCHANGED <<now, enabled, ttl, max_size, lastOp, th, gen, hashing, sess, tm>>

InitAnalyze ==
    /\ rows = {}
    /\ now = 0
    /\ enabled \in BOOLEAN /\ ttl = 0 /\ max_size = 1
    /\ lastOp = NoOp
    /\ th = [w \in Workers |-> Idle]
    /\ gen = NoGen
    /\ analysis = NoAnalysis
    /\ hashing = NoHashing
    /\ sess = NoSession
    /\ tm = NoTasks

NextAnalyze ==
    \/ AnalyzeWithLlm
    \/ Tick

SpecAnalyze == InitAnalyze /\ [][NextAnalyze]_vars

\* ------------------------------------------------------- digests of texts
\* a call of Hasher.hash_text; n alternates from one call to the next
HashText ==
    \E text \in HashTexts, algorithm \in Algorithms :
        /\ hashing' = [n |-> 1 - hashing.n, cur |-> HashCall(text, algorithm),
                       prev |-> hashing.cur]
        /\ UNCHANGED <<rows, now, enabled, ttl, max_size, lastOp, th, gen, analysis, sess, tm>>

NextHash ==
    \/ HashText

SpecHash == InitKey /\ [][NextHash]_vars

\* ------------------------------------------------ a store filled to max_size
\* max_size of the eviction scenario and the keys of the entries that fill it
FullSize == 10
FullKeys == <<"k0", "k1", "k2", "k3", "k4", "k5", "k6", "k7", "k8", "k9">>

\* the ways the reads of the entries are ordered: as the entries were stored,
\* in the reverse order, or all at one time
HitOrders == {"asc", "desc", "same"}

\* FullSize live entries that never expire, stored at times 1..FullSize; those
\* of hit were read once afterwards, the others never
FullRows(hit, order) ==
    {[CachedResponse(FullKeys[i], "t1", "r1", i, NULL)
        EXCEPT !.last_hit = IF i \notin hit THEN NULL
                            ELSE CASE order = "asc" -> FullSize + i
                                   [] order = "desc" -> 2 * FullSize + 1 - i
                                   [] OTHER -> FullSize + 1,
               !.hits = IF i \in hit THEN 1 ELSE 0]
     : i \in 1..FullSize}

InitFull ==
    /\ \E hit \in SUBSET (1..FullSize), order \in HitOrders :
          /\ Cardinality(hit) \notin 3..(FullSize - 3)
          /\ rows = FullRows(hit, order)
    /\ now = 2 * FullSize + 1
    /\ enabled = TRUE /\ ttl = 0 /\ max_size = FullSize
    /\ lastOp = NoOp
    /\ th = [w \in Workers |-> Idle]
    /\ gen = NoGen
    /\ analysis = NoAnalysis
    /\ hashing = NoHashing
    /\ sess = NoSession
    /\ tm = NoTasks

NextFull ==
    \/ CacheResponse({0})

SpecFull == InitFull /\ [][NextFull]_vars

\* ------------------------------------- a full store with a quota of two rows
\* max_size and ttl of the scenario: remove_count is 2, and an entry stored at
\* time i expires after time i + QuotaTtl
QuotaSize == 20
QuotaTtl == 19
QuotaKeys == <<"k00", "k01", "k02", "k03", "k04", "k05", "k06", "k07", "k08", "k09",
               "k10", "k11", "k12", "k13", "k14", "k15", "k16", "k17", "k18", "k19">>

\* QuotaSize entries stored at times 1..QuotaSize; those of hit were read once,
\* right after they were stored
QuotaRows(hit) ==
    {[CachedResponse(QuotaKeys[i], "t1", "r1", i, i + QuotaTtl)
        EXCEPT !.last_hit = IF i \in hit THEN i ELSE NULL,
               !.hits = IF i \in hit THEN 1 ELSE 0]
     : i \in 1..QuotaSize}

\* the clock stands at the last store or up to three ticks later, so that none
\* to three of the entries have expired
InitQuota ==
    /\ \E hit \in SUBSET {1, 3, QuotaSize} : rows = QuotaRows(hit)
    /\ now \in QuotaSize..(QuotaSize + 3)
    /\ enabled = TRUE /\ ttl = QuotaTtl /\ max_size = QuotaSize
    /\ lastOp = NoOp
    /\ th = [w \in Workers |-> Idle]
    /\ gen = NoGen
    /\ analysis = NoAnalysis
    /\ hashing = NoHashing
    /\ sess = NoSession
    /\ tm = NoTasks

NextQuota ==
    \/ CacheResponse({0})

SpecQuota == InitQuota /\ [][NextQuota]_vars

\* ------------------------------------------------- sessions of the store
\* session = self.SessionLocal(); yield session: the body of the with block
\* starts
SessionEnter ==
    /\ sess.pc = "idle"
    /\ sess.opened < MaxSessions
    /\ sess' = [sess EXCEPT !.pc = "body", !.opened = @ + 1]
    /\ UNCHANGED <<rows, now, enabled, ttl, max_size, lastOp, th, gen, analysis, hashing, tm>>

\* the body of the with block ends and get_session runs to its end
SessionExit ==
    /\ sess.pc = "body"
    /\ \E body \in BodyOutcomes, commit \in CommitOutcomes :
          LET end == get_session_exit(body, commit)
          IN sess' = [pc |-> "idle", opened |-> sess.opened,
                      closed |-> sess.closed + (IF end.closed THEN 1 ELSE 0),
                      commits |-> sess.commits + (IF end.committed THEN 1 ELSE 0),
                      rollbacks |-> sess.rollbacks + (IF end.rollback_called THEN 1 ELSE 0),
                      last |-> end]
    /\ UNCHANGED <<rows, now, enabled, ttl, max_size, lastOp, th, gen, analysis, hashing, tm>>

NextSession ==
    \/ SessionEnter
    \/ SessionExit

SpecSession == InitKey /\ [][NextSession]_vars

\* ------------------------------------------------- tasks of the TaskManager
\* run_task: _should_stop is reset, then the task is started on a QThread of
\* its own (tracked in active_threads) or on the thread pool
RunTask ==
    \E t \in TaskIds, use_thread_pool \in BOOLEAN :
        /\ tm.task[t].state = "new"
        /\ tm' = [tm EXCEPT !.should_stop = FALSE,
                            !.task[t] = [state |-> "running", pool |-> use_thread_pool,
                                         is_running |-> ~use_thread_pool],
                            !.active_threads = IF use_thread_pool THEN @ ELSE @ \cup {t},
                            !.last = TaskCall("run_task", t, FALSE)]
        /\ UNCHANGED <<rows, now, enabled, ttl, max_size, lastOp, th, gen, analysis, hashing, sess>>

\* the function of a task returns or raises: finished or error is emitted and
\* _remove_thread takes the thread off active_threads
TaskEnds ==
    \E t \in TaskIds :
        /\ tm.task[t].state = "running"
        /\ tm' = [tm EXCEPT !.task[t] = [@ EXCEPT !.state = "ended", !.is_running = FALSE],
                            !.active_threads = @ \ {t},
                            !.stopping = @ \ {t}]
        /\ UNCHANGED <<rows, now, enabled, ttl, max_size, lastOp, th, gen, analysis, hashing, sess>>

\* stop_all: _should_stop = True, stop() on every active thread (which clears
\* _is_running and quits an event loop the thread does not run), and the
\* runnables still queued in the pool are dropped (none: the pool starts them
\* at once)
StopAll ==
    /\ tm' = [tm EXCEPT !.should_stop = TRUE,
                        !.task = [t \in TaskIds |->
                                    IF t \in tm.active_threads
                                    THEN [tm.task[t] EXCEPT !.is_running = FALSE]
                                    ELSE tm.task[t]],
                        !.stopping = {t \in TaskIds : tm.task[t].state = "running"},
                        !.last = TaskCall("stop_all", "", FALSE)]
    /\ UNCHANGED <<rows, now, enabled, ttl, max_size, lastOp, th, gen, analysis, hashing, sess>>

\* wait_all: waits on every active thread and on the pool until the timeout;
\* the finished signals are delivered after it has returned
WaitAll ==
    /\ tm' = [tm EXCEPT !.last = TaskCall("wait_all", "", FALSE)]
    /\ UNCHANGED <<rows, now, enabled, ttl, max_size, lastOp, th, gen, analysis, hashing, sess>>

\* a running task asks should_stop()
ShouldStop ==
    \E t \in TaskIds :
        /\ tm.task[t].state = "running"
        /\ tm' = [tm EXCEPT !.last = TaskCall("should_stop", t, tm.should_stop)]
        /\ UNCHANGED <<rows, now, enabled, ttl, max_size, lastOp, th, gen, analysis, hashing, sess>>

NextTasks ==
    \/ RunTask
    \/ TaskEnds
    \/ StopAll
    \/ WaitAll
    \/ ShouldStop

SpecTasks == InitKey /\ [][NextTasks]_vars

\* --------------------------------------- cache_response on worker threads
\* Each step is one transaction of the store (one get_session block); the
\* SELECT of old_ids and the DELETE that follows it are separate statements
\* between which the store lets another connection commit.
ConcInputs(w) ==
    IF w = "w1" THEN {<<"a", "t1", "r1">>} ELSE {<<"a", "t2", "r2">>, <<"", "t2", "r2">>}

InProgress(w) == th[w].pc \notin {"idle", "done"}

\* cache_response is entered; a disabled cache returns None at once
WBegin(w) ==
    /\ th[w].pc = "idle"
    /\ \E in \in ConcInputs(w) :
          th' = [th EXCEPT ![w] = [@ EXCEPT !.pc = IF enabled THEN "size" ELSE "done",
                                            !.key = in[1], !.text = in[2], !.resp = in[3],
                                            !.overlapped = \E o \in Workers \ {w} : InProgress(o)]]
    /\ UNCHANGED <<rows, now, enabled, ttl, max_size, lastOp, gen, analysis, hashing, sess, tm>>

\* current_size = self._get_cache_size()
WSize(w) ==
    /\ th[w].pc = "size"
    /\ th' = [th EXCEPT ![w] = [@ EXCEPT !.size = cache_size(rows),
                                         !.pc = IF cache_size(rows) >= max_size
                                                THEN "purge" ELSE "insert"]]
    /\ UNCHANGED <<rows, now, enabled, ttl, max_size, lastOp, gen, analysis, hashing, sess, tm>>

\* expired = self.clean_expired_cache()
WPurge(w) ==
    /\ th[w].pc = "purge"
    /\ LET out == clean_expired_cache(rows, now, FALSE)
       IN /\ rows' = out.rows
          /\ th' = [th EXCEPT ![w] = [@ EXCEPT
                        !.expired = out.ret.val,
                        !.evicted = @ \cup {r.cache_key : r \in rows \ out.rows},
                        !.pc = IF out.ret.val >= RemoveCount(max_size)
                               THEN "insert" ELSE "select"]]
    /\ UNCHANGED <<now, enabled, ttl, max_size, lastOp, gen, analysis, hashing, sess, tm>>

\* old_ids = [row[0] for row in session.execute(stmt).all()]
WSelect(w) ==
    /\ th[w].pc = "select"
    /\ \E old \in OldIds(rows, RemoveCount(max_size) - th[w].expired) :
          th' = [th EXCEPT ![w] = [@ EXCEPT !.old = old,
                                            !.pc = IF old = {} THEN "insert" ELSE "delete"]]
    /\ UNCHANGED <<rows, now, enabled, ttl, max_size, lastOp, gen, analysis, hashing, sess, tm>>

\* the rows of the table that old_ids names: a selected row is still the same
\* row after another call has changed its hits, last_hit or is_valid
Selected(rs, old) ==
    {r \in rs : \E o \in old : o.cache_key = r.cache_key /\ o.created_at = r.created_at}

\* session.execute(delete(CachedResponse).where(CachedResponse.id.in_(old_ids)))
WDelete(w) ==
    /\ th[w].pc = "delete"
    /\ rows' = rows \ Selected(rows, th[w].old)
    /\ th' = [th EXCEPT ![w] = [@ EXCEPT
                  !.evicted = @ \cup {r.cache_key : r \in Selected(rows, th[w].old)},
                  !.old = {},
                  !.pc = "insert"]]
    /\ UNCHANGED <<now, enabled, ttl, max_size, lastOp, gen, analysis, hashing, sess, tm>>

\* cached = self.db.add_cached_response(...); an exception gives None
WInsert(w) ==
    /\ th[w].pc = "insert"
    /\ LET cached == add_cached_response(rows, th[w].key, th[w].text, th[w].resp,
                                         IF ttl > 0 THEN ttl ELSE NULL, now, FALSE)
       IN /\ rows' = cached.rows
          /\ th' = [th EXCEPT ![w] = [@ EXCEPT !.ret = cached.ret, !.pc = "done"]]
    /\ UNCHANGED <<now, enabled, ttl, max_size, lastOp, gen, analysis, hashing, sess, tm>>

\* entries stored under a key no worker uses, before the workers start
ConcStores ==
    {{}, {CachedResponse("b", "t1", "r1", 0, NULL)},
     {[CachedResponse("b", "t1", "r1", 0, NULL) EXCEPT !.is_valid = FALSE]}}

InitConc ==
    /\ rows \in ConcStores
    /\ now = 0
    /\ enabled = TRUE /\ ttl \in {0, 1} /\ max_size \in {1, 2}
    /\ lastOp = NoOp
    /\ th = [w \in Workers |-> Idle]
    /\ gen = NoGen
    /\ analysis = NoAnalysis
    /\ hashing = NoHashing
    /\ sess = NoSession
    /\ tm = NoTasks

NextConc ==
    \/ Tick
    \/ \E w \in Workers : WBegin(w)
    \/ \E w \in Workers : WSize(w)
    \/ \E w \in Workers : WPurge(w)
    \/ \E w \in Workers : WSelect(w)
    \/ \E w \in Workers : WDelete(w)
    \/ \E w \in Workers : WInsert(w)

SpecConc == InitConc /\ [][NextConc]_vars

TypeOK ==
    /\ now \in 0..MaxTime
    /\ \A r \in rows : r.hits \in 0..MaxHits /\ r.cache_key \in Keys
    /\ \A r1, r2 \in rows : r1.cache_key = r2.cache_key => r1 = r2

\* ----------------------------------- get_cached_response on worker threads
\* The SELECT of the repository's get and the UPDATE that the commit flushes
\* are separate statements: the driver opens the write transaction only for
\* the UPDATE, so another connection can commit between the two.

\* the entry the workers read: stored by an earlier cache_response
GetStores == {{CachedResponse("a", "t1", "r1", 0, NULL)}}

\* get_cached_response is entered and the session runs its SELECT; for a hit
\* the session holds the instance with hits + 1 and last_hit = utcnow()
GSelect(w) ==
    /\ th[w].pc \in {"idle", "done"}
    /\ \A r \in rows : r.hits < MaxHits
    /\ LET found == {r \in rows : r.cache_key = "a" /\ Live(r, now)}
       IN IF ~enabled \/ found = {}
          THEN th' = [th EXCEPT ![w] = [Idle EXCEPT !.pc = "done", !.key = "a"]]
          ELSE LET cached == CHOOSE r \in found : TRUE
               IN th' = [th EXCEPT ![w] =
                            [Idle EXCEPT !.pc = "commit", !.key = "a",
                                         !.old = {[cached EXCEPT !.hits = cached.hits + 1,
                                                                 !.last_hit = now]},
                                         !.overlapped = \E o \in Workers \ {w} : InProgress(o)]]
    /\ UNCHANGED <<rows, now, enabled, ttl, max_size, lastOp, gen, analysis, hashing, sess, tm>>

\* session.commit(): UPDATE cached_responses SET hits = ?, last_hit = ? WHERE
\* id = ? with the values the session holds; a row that is gone makes the
\* flush raise.  The manager's log line then reads cached.hits
GCommit(w) ==
    /\ th[w].pc = "commit"
    /\ LET mine == CHOOSE o \in th[w].old : TRUE
           target == Selected(rows, th[w].old)
           written == {[r EXCEPT !.hits = mine.hits, !.last_hit = mine.last_hit] : r \in target}
           cached == get_session(rows, IF target = {}
                                       THEN [rows |-> rows, ret |-> None, exc |-> "StaleDataError"]
                                       ELSE [rows |-> (rows \ target) \cup written,
                                             ret |-> Obj(mine), exc |-> "none"])
       IN /\ rows' = cached.rows
          /\ th' = [th EXCEPT ![w] = [@ EXCEPT
                        !.ret = IF cached.exc # "none" \/ AttrRaises(cached.ret)
                                THEN None ELSE cached.ret,
                        !.old = {},
                        !.pc = "done"]]
    /\ UNCHANGED <<now, enabled, ttl, max_size, lastOp, gen, analysis, hashing, sess, tm>>

InitGets ==
    /\ rows \in GetStores
    /\ now = 0
    /\ enabled = TRUE /\ ttl = 0 /\ max_size = 1
    /\ lastOp = NoOp
    /\ th = [w \in Workers |-> Idle]
    /\ gen = NoGen
    /\ analysis = NoAnalysis
    /\ hashing = NoHashing
    /\ sess = NoSession
    /\ tm = NoTasks

NextGets ==
    \/ Tick
    \/ \E w \in Workers : GSelect(w)
    \/ \E w \in Workers : GCommit(w)

SpecGets == InitGets /\ [][NextGets]_vars

\* ================================================================= claims
\* the step is a call of a CacheManager method (the clock leaves lastOp alone)
Call(name) == lastOp'.n # lastOp.n /\ lastOp'.op = name

\* a returned value is an entry whose columns the caller can read
Readable(v) == v.kind = "obj" /\ ~(v.expired /\ v.detached)

\* C1: with the cache enabled and ttl = 0, cache_response(k, r) for a key that
\* had no row, immediately followed by get_cached_response(k), gives an entry
\* (not a miss) whose response is r.
C1_RoundTrip ==
    [][(/\ enabled /\ ttl = 0
        /\ lastOp.op = "put" /\ lastOp.fresh
        /\ Call("get") /\ lastOp'.key = lastOp.key)
       => (/\ Readable(lastOp'.ret)
           /\ lastOp'.ret.row.response = lastOp.resp)]_vars

\* C2: the repository's get_cached_response returns an entry only if the row of
\* the key is valid and its expires_at is null or later than the time of the
\* call; for a tombstoned or expired row it returns a miss and changes no row.
C2_LiveOnly ==
    [][Call("get") =>
        LET isLive == \E r \in rows : /\ r.cache_key = lastOp'.key
                                      /\ r.is_valid
                                      /\ (r.expires_at = NULL \/ r.expires_at > now)
        IN /\ lastOp'.dbret.kind = "obj" => isLive
           /\ ~isLive => lastOp'.dbret.kind = "None" /\ rows' = rows]_vars

\* C2 witness: a get of the key of a valid row whose expires_at has been reached
\* came back as a miss
C2_Witness ==
    /\ enabled /\ lastOp.op = "get" /\ lastOp.dbret.kind = "None"
    /\ \E r \in rows : /\ r.cache_key = lastOp.key /\ r.is_valid
                       /\ r.expires_at # NULL /\ r.expires_at <= now
                       /\ r.expires_at >= r.created_at + ttl

\* C3: with max_size >= 1 and calls made one at a time, right after each
\* completed cache_response the number of valid entries is at most max_size.
C3_Bounded ==
    (lastOp.op = "put" /\ max_size >= 1) => cache_size(rows) <= max_size

\* the order of the claim: last_hit with never-hit first, then created_at
C4_Before(a, b) ==
    \/ a.last_hit = NULL /\ b.last_hit # NULL
    \/ a.last_hit # NULL /\ b.last_hit # NULL /\ a.last_hit < b.last_hit
    \/ a.last_hit = b.last_hit /\ a.created_at < b.created_at

\* C4: with max_size = 10 and exactly 10 live, never-expiring entries, an 11th
\* cache_response deletes at least one entry before it inserts, and no entry is
\* deleted while an entry that comes before it in the order (last_hit with
\* never-hit first, then created_at) survives.
C4_EvictsOldest ==
    [][(/\ Call("put") /\ max_size = 10 /\ enabled
        /\ Cardinality(rows) = 10
        /\ \A r \in rows : r.is_valid /\ r.expires_at = NULL)
       => LET deleted == {r \in rows : r.cache_key \in lastOp'.evicted}
              kept == rows \ deleted
          IN /\ deleted # {}
             /\ \A d \in deleted : \A s \in kept : ~C4_Before(s, d)
             /\ \A s \in kept : \E r \in rows' : r.cache_key = s.cache_key
             /\ lastOp'.ret.kind = "obj" =>
                    \E r \in rows' : r.cache_key = lastOp'.key /\ r.created_at = now]_vars

\* C4 witness: the 11th entry is in, one of the ten is gone, and both never-hit
\* and hit entries were among the ten
C4_Witness ==
    /\ max_size = 10 /\ lastOp.op = "put" /\ lastOp.ret.kind = "obj"
    /\ Cardinality(lastOp.evicted) = 1
    /\ Cardinality(rows) = 10
    /\ \E r \in rows : r.last_hit # NULL
    /\ \E r \in rows : r.last_hit = NULL /\ r.cache_key # lastOp.key

\* C5: with ttl = 1 the repository's get_cached_response returns a valid entry
\* while the clock has not reached its expires_at, and returns a miss once the
\* clock is past store time + 1, the row staying in the table; a row leaves the
\* table only through clean_expired_cache or the eviction of a cache_response.
C5_ExpiryBoundary ==
    [][/\ (Call("get") /\ enabled /\ ttl = 1) =>
            \A r \in rows : (r.cache_key = lastOp'.key /\ r.is_valid) =>
                /\ (r.expires_at # NULL /\ now < r.expires_at) =>
                      /\ lastOp'.dbret.kind = "obj"
                      /\ lastOp'.dbret.row.cache_key = r.cache_key
                      /\ lastOp'.dbret.row.response = r.response
                /\ now > r.created_at + 1 =>
                      lastOp'.dbret.kind = "None" /\ r \in rows'
       /\ \A r \in rows : (\A q \in rows' : q.cache_key # r.cache_key) =>
            \/ Call("purge") /\ lastOp'.purged >= 1
            \/ Call("put") /\ (lastOp'.purged >= 1 \/ r.cache_key \in lastOp'.evicted)]_vars

\* C5 witness: an entry stored with ttl = 1 was read while live, and a get after
\* its time came back as a miss with the row still in the table
C5_Witness ==
    /\ enabled /\ ttl = 1 /\ lastOp.op = "get" /\ lastOp.dbret.kind = "None"
    /\ \E r \in rows : /\ r.cache_key = lastOp.key /\ r.is_valid /\ r.hits >= 1
                       /\ now > r.created_at + 1

\* C6: each get_cached_response that hits increments hits by exactly 1, stores
\* it and returns an entry carrying the incremented value (so three gets in a
\* row on a new entry return hits 1, 2, 3), and last_hit never decreases.
C6_HitCounting ==
    [][(Call("get") /\ enabled) =>
        \A r \in rows : (r.cache_key = lastOp'.key /\ Live(r, now)) =>
            /\ Readable(lastOp'.ret)
            /\ lastOp'.ret.row.hits = r.hits + 1
            /\ \E q \in rows' : /\ q.cache_key = r.cache_key
                                /\ q.hits = r.hits + 1
                                /\ q.last_hit >= r.last_hit]_vars

\* the five calls of C8 and the benign value each returns on a store fault
C8_Benign(op) ==
    CASE op = "get" -> None
      [] op = "put" -> None
      [] op = "invalidate" -> BoolVal(FALSE)
      [] op = "clear" -> IntVal(0)
      [] op = "purge" -> IntVal(0)

C8_Ops == {"get", "put", "invalidate", "clear", "purge"}

\* C8 as stated: if the store raises during get_cached_response,
\* cache_response, invalidate_cache_entry, clear_cache or clean_expired_cache,
\* no exception leaves the call and it returns None, None, False, 0, 0.
C8_FaultsBenign ==
    (lastOp.op \in C8_Ops /\ lastOp.fault # 0) =>
        ~lastOp.raised /\ lastOp.ret = C8_Benign(lastOp.op)

\* C8 amended: as stated, except when the store call that raises is the expiry
\* purge inside the eviction of cache_response: clean_expired_cache swallows
\* that fault and cache_response goes on, returning the entry it then inserts
\* (None if the insert fails).
C8_FaultsBenignAmended ==
    (lastOp.op \in C8_Ops /\ lastOp.fault # 0) =>
        /\ ~lastOp.raised
        /\ (lastOp.op = "put" /\ lastOp.fault = 2) =>
              \/ lastOp.ret = None
              \/ /\ lastOp.ret.kind = "obj"
                 /\ \E r \in rows : r.cache_key = lastOp.key /\ r.response = lastOp.resp
        /\ ~(lastOp.op = "put" /\ lastOp.fault = 2) => lastOp.ret = C8_Benign(lastOp.op)

\* C8 witness: the purge of an eviction raised and cache_response still
\* returned the new entry
C8_Witness ==
    /\ lastOp.op = "put" /\ lastOp.fault = 2 /\ ~lastOp.raised
    /\ lastOp.ret.kind = "obj"

\* C9: no call at the cache boundary lets a storage fault leave as an exception.
C9_NoPropagation == ~lastOp.raised

\* C10: invalidating the same existing key twice in a row, nothing stored in
\* between, reports 1 (True) the first time and 0 (False) the second.
C10_InvalidateTwice ==
    [][(/\ Call("invalidate") /\ lastOp.op = "invalidate"
        /\ lastOp'.key = lastOp.key
        /\ lastOp.dbret.kind = "int" /\ lastOp.dbret.val = 1)
       => (lastOp'.dbret.val = 0 /\ lastOp'.ret = BoolVal(FALSE))]_vars

\* two overlapping cache_response calls for one key, both returned
C7_BothDone ==
    /\ \A w \in Workers : th[w].pc = "done"
    /\ th["w1"].key = th["w2"].key
    /\ \E w \in Workers : th[w].overlapped

\* exactly one call inserted and returned the entry, the other returned None,
\* and the one row of the key holds the winner's response
C7_OneWinner ==
    \E win \in Workers : \E lose \in Workers \ {win} :
        /\ th[win].ret.kind = "obj" /\ th[lose].ret = None
        /\ \E r \in rows : /\ r.cache_key = th[win].key
                           /\ r.response = th[win].resp
                           /\ \A q \in rows : q.cache_key = r.cache_key => q = r

C11_InvalidateFrame ==
    [][Call("invalidate") =>
        \A r \in rows : r.cache_key # lastOp'.key =>
            /\ r \in rows'
            /\ Live(r, now) => \E q \in rows' : q.cache_key = r.cache_key /\ Live(q, now)]_vars

\* C12: after clear_cache() every row is tombstoned and the call reports how
\* many; a get of a key whose row is tombstoned misses and changes nothing; and
\* a key whose row is tombstoned has a valid row again only through a
\* cache_response of that key that inserts.  Together: a key that was live
\* before clear_cache misses for as long as it is not stored again.
C12_ClearThenMiss ==
    [][/\ Call("clear") =>
            /\ \A q \in rows' : ~q.is_valid
            /\ {q.cache_key : q \in rows'} = {r.cache_key : r \in rows}
            /\ lastOp'.ret = IntVal(Cardinality(rows))
       /\ (Call("get") /\ \E r \in rows : r.cache_key = lastOp'.key /\ ~r.is_valid) =>
            /\ lastOp'.ret = None /\ lastOp'.dbret = None
            /\ rows' = rows
       /\ \A r \in rows : \A q \in rows' :
            (q.cache_key = r.cache_key /\ ~r.is_valid /\ q.is_valid) =>
                /\ Call("put") /\ lastOp'.key = r.cache_key
                /\ lastOp'.dbret.kind = "obj" /\ q.created_at = now]_vars

\* C12 witness: clear_cache has just tombstoned two entries that had not
\* reached their expiry
C12_Witness ==
    /\ lastOp.op = "clear" /\ lastOp.ret = IntVal(2)
    /\ Cardinality(rows) = 2
    /\ \A r \in rows : ~r.is_valid /\ (r.expires_at = NULL \/ r.expires_at > now)

\* C13: with enabled = false, get_cached_response returns a miss and
\* cache_response returns None, neither calls the repository, and no row is
\* created or changed; so cache_response(k, ...) followed by
\* get_cached_response(k) misses.
C13_Disabled ==
    [][(~enabled /\ (Call("get") \/ Call("put"))) =>
        /\ lastOp'.ret = None
        /\ lastOp'.dbret = None
        /\ rows' = rows]_vars

\* C13 witness: with the cache disabled, a get of a key that has a live row in
\* the table came back as a miss and the row was not touched
C13_Witness ==
    /\ ~enabled /\ lastOp.op = "get" /\ lastOp.ret = None
    /\ \E r \in rows : /\ r.cache_key = lastOp.key /\ Live(r, now)
                       /\ r.hits = 0 /\ r.last_hit = NULL

\* C14: clean_expired_cache deletes exactly the rows whose expires_at is
\* non-null and earlier than the current time, valid or tombstoned, returns how
\* many it deleted, and leaves every other row unchanged.
C14_PurgeExact ==
    [][Call("purge") =>
        LET past == {r \in rows : r.expires_at >= 0 /\ now > r.expires_at}
        IN /\ rows' = rows \ past
           /\ lastOp'.ret = IntVal(Cardinality(past))]_vars

\* C14 witness: a purge deleted one row and kept a tombstoned row whose
\* expires_at is the current time
C14_Witness ==
    /\ lastOp.op = "purge" /\ lastOp.ret = IntVal(1)
    /\ \E r \in rows : r.expires_at = now /\ ~r.is_valid

\* C15: cache_response sets expires_at to the store time plus ttl when ttl > 0
\* and to null when ttl <= 0; an entry with null expires_at is found by the
\* repository's get at whatever time it is made, as long as the entry is valid,
\* and is never deleted by clean_expired_cache.
C15_TtlToExpiry ==
    [][/\ (Call("put") /\ lastOp'.dbret.kind = "obj") =>
            \E q \in rows' :
                /\ q.cache_key = lastOp'.key /\ q.created_at = now
                /\ ttl >= 1 => q.expires_at = now + ttl
                /\ ttl < 1 => q.expires_at = NULL
                /\ lastOp'.dbret.row = q
       /\ (Call("get") /\ enabled) =>
            \A r \in rows : (r.cache_key = lastOp'.key /\ r.is_valid /\ r.expires_at = NULL) =>
                lastOp'.dbret.kind = "obj" /\ lastOp'.dbret.row.cache_key = r.cache_key
       /\ Call("purge") => \A r \in rows : r.expires_at = NULL => r \in rows']_vars

\* C15 witness: an entry stored at time 0 under a negative ttl has no expiry
\* and the repository still found it when the clock had reached MaxTime
C15_Witness ==
    /\ ttl < 0 /\ now = MaxTime /\ lastOp.op = "get" /\ lastOp.dbret.kind = "obj"
    /\ lastOp.dbret.row.created_at = 0 /\ lastOp.dbret.row.expires_at = NULL
    /\ lastOp.dbret.row.last_hit = now

\* the step is a call of generate_cache_key
KeyStep == gen'.n # gen.n

C17_SameInput(c, d) ==
    /\ c.made /\ d.made
    /\ c.args[1] = d.args[1] /\ c.args[2] = d.args[2] /\ c.args[3] = d.args[3]

\* C17: for all text, provider and prompt_type and every non-empty model m,
\* the key computed without a model differs from the key computed with m (the
\* digest taken as injective on the joined string).
C17_ModelChangesKey ==
    \A c, d \in {gen.cur, gen.prev} :
        (/\ C17_SameInput(c, d)
         /\ c.args[4] = NoModel
         /\ d.args[4] # NoModel /\ Len(d.args[4]) >= 1)
        => c.key # d.key

\* C17 witness: the key of a text was computed without a model and then with
\* the model "m", and the two keys differ
C17_Witness ==
    /\ C17_SameInput(gen.cur, gen.prev)
    /\ gen.prev.args[4] = NoModel /\ gen.cur.args[4] = <<"m">>
    /\ gen.cur.key # gen.prev.key

\* C18: omitting the model is not the same as passing an empty-string model:
\* for all text, provider and prompt_type the two keys differ.
C18_EmptyModelDistinct ==
    \A c, d \in {gen.cur, gen.prev} :
        (/\ C17_SameInput(c, d)
         /\ c.args[4] = NoModel
         /\ d.args[4] = <<>>)
        => c.key # d.key

\* C19: the string that generate_cache_key hashes is an injective encoding of
\* its components: two calls whose (text, provider, prompt_type, optional
\* model) differ never hash the same joined string.
C19_JoinInjective ==
    (gen.cur.made /\ gen.prev.made /\ gen.cur.args # gen.prev.args)
        => gen.cur.hashed # gen.prev.hashed

\* C20: with max_size = 0 (the size is never below max_size, whatever the
\* eviction deletes) every cache_response inserts the new entry, dated at the
\* time of the call, and returns it, not None and not an exception.
C20_ZeroSize ==
    [][(Call("put") /\ enabled /\ max_size = 0) =>
        /\ ~lastOp'.raised
        /\ lastOp'.ret.kind = "obj"
        /\ lastOp'.ret.row.cache_key = lastOp'.key
        /\ lastOp'.ret.row.response = lastOp'.resp
        /\ \E q \in rows' : /\ q.cache_key = lastOp'.key /\ q.response = lastOp'.resp
                            /\ q.created_at = now /\ q.is_valid
                            /\ lastOp'.ret.row = q]_vars

\* C20 witness: with max_size = 0 a cache_response found an entry in the
\* table, evicted it and stored and returned its own
C20_Witness ==
    /\ enabled /\ max_size = 0 /\ lastOp.op = "put" /\ lastOp.ret.kind = "obj"
    /\ lastOp.evicted # {} /\ cache_size(rows) > max_size
    /\ \E q \in rows : q.cache_key = lastOp.key /\ q.response = lastOp.resp

\* the step is a call of analyze_with_llm
AnalyzeStep == analysis'.n # analysis.n

\* C21: when analyze_with_llm (use_cache true, cache enabled) misses the cache
\* and the LLM call succeeds, the call returns and the response is stored
\* under the request's key; and an analyze_with_llm that finds a live entry
\* under its key is answered from the cache without calling the LLM.
C21_MissThenStored ==
    [][(AnalyzeStep /\ enabled /\ analysis'.cur.use_cache) =>
        LET c == analysis'.cur
            live == \E r \in rows : r.cache_key = c.key /\ Live(r, now)
        IN /\ (~live /\ c.llm \in {"r1", "r2"}) =>
                /\ c.raised = "none" /\ c.called /\ c.response = c.llm
                /\ \E q \in rows' : q.cache_key = c.key /\ q.response = c.llm
           /\ (live /\ c.llm # "none") =>
                c.raised = "none" /\ c.from_cache /\ ~c.called]_vars

\* C22: get_cache_stats changes no row; in the snapshot it returns,
\* total_entries counts all rows, valid_entries the rows with is_valid = true
\* (so valid_entries <= total_entries) and total_hits is the sum of hits over
\* all rows.
C22_StatsSnapshot ==
    [][Call("stats") =>
        LET st == lastOp'.ret.stats
        IN /\ rows' = rows
           /\ lastOp'.ret.kind = "dict"
           /\ st.total_entries = Cardinality({r.cache_key : r \in rows})
           /\ st.valid_entries = Cardinality({r.cache_key : r \in {x \in rows : x.is_valid}})
           /\ st.valid_entries <= st.total_entries
           /\ st.total_hits = TotalHits(rows)]_vars

\* C22 witness: the snapshot of a table with a tombstoned entry and a valid
\* one, both of them read before
C22_Witness ==
    /\ lastOp.op = "stats" /\ lastOp.ret.kind = "dict"
    /\ lastOp.ret.stats.total_entries = 2 /\ lastOp.ret.stats.valid_entries = 1
    /\ lastOp.ret.stats.total_hits >= 2
    /\ \A r \in rows : r.hits >= 1

\* C23: Hasher.hash_text called with an algorithm other than md5 or sha256
\* raises an error to its caller and returns no digest; it never falls back to
\* a default algorithm.
C23_UnknownAlgorithm ==
    (hashing.cur.made /\ hashing.cur.algorithm \notin {"md5", "sha256"}) =>
        /\ hashing.cur.raised # "none"
        /\ hashing.cur.ret = <<>>
        /\ hashing.cur.ret # <<"md5">> \o hashing.cur.text
        /\ hashing.cur.ret # <<"sha256">> \o hashing.cur.text

\* C23 witness: hash_text was asked for sha1 after it had returned an md5
\* digest, and raised ValueError
C23_Witness ==
    /\ hashing.prev.made /\ hashing.prev.algorithm = "md5"
    /\ hashing.prev.raised = "none" /\ hashing.prev.ret = <<"md5", "a">>
    /\ hashing.cur.made /\ hashing.cur.algorithm = "sha1" /\ hashing.cur.text = <<"a">>
    /\ hashing.cur.raised = "ValueError"

\* C24: a cache_response for a key that has a row but no live entry (the row
\* was invalidated, or has expired and is not yet purged) succeeds and leaves
\* a live entry of the key with the new response, which a get then finds.
C24_RestoreAfterInvalidate ==
    [][(/\ Call("put") /\ enabled
        /\ \E r \in rows : r.cache_key = lastOp'.key /\ ~Live(r, now))
       => (/\ lastOp'.ret.kind = "obj"
           /\ \E q \in rows' : /\ q.cache_key = lastOp'.key
                               /\ q.response = lastOp'.resp
                               /\ Live(q, now))]_vars

\* the smaller of two numbers
C25_Min(a, b) == IF a <= b THEN a ELSE b

\* C25: the staleness step of an eviction takes its victims among the valid
\* entries only: when the purge removed fewer rows than the quota, it deletes
\* min(quota - purged, number of valid entries) valid rows and never a
\* tombstoned row.
C25_ValidVictims ==
    [][(Call("put") /\ enabled /\ cache_size(rows) >= max_size) =>
        LET quota == IF max_size >= 10 THEN max_size \div 10 ELSE 1
            left == {r \in rows : ~(r.expires_at # NULL /\ r.expires_at < now)}
            victims == {r \in left : r.cache_key \in lastOp'.evicted}
        IN /\ \A r \in victims : r.is_valid
           /\ lastOp'.purged < quota =>
                Cardinality(victims) =
                    C25_Min(quota - lastOp'.purged, Cardinality({r \in left : r.is_valid}))]_vars

C27_ConcurrentBound ==
    (/\ \A w \in Workers : th[w].pc = "done"
     /\ th["w1"].key # th["w2"].key
     /\ max_size >= 1 /\ ttl = 0
     /\ \A r \in rows : r.is_valid /\ r.expires_at = NULL
     /\ \A w \in Workers : "b" \notin th[w].evicted)
    => Cardinality({r \in rows : r.is_valid}) <= max_size

\* C28: for every entry, the persisted hits value never decreases during the
\* entry's lifetime, under any interleaving of concurrent get_cached_response
\* calls on the same key.
C28_HitsMonotone ==
    [][\A r \in rows : \A q \in rows' :
          (q.cache_key = r.cache_key /\ q.created_at = r.created_at) =>
              q.hits >= r.hits]_vars

\* C29: whenever cache_response is called while the number of live entries is
\* >= max_size, the eviction runs, on the table as it was before the call, and
\* is over before the new row is inserted: every row it deletes is a row that
\* was there before the call, and the row the call writes is in the table
\* when the call returns.
C29_EvictThenInsert ==
    [][(Call("put") /\ enabled) =>
        LET live == {r \in rows : r.is_valid /\ (r.expires_at = NULL \/ r.expires_at > now)}
            deleted == lastOp'.purged + Cardinality(lastOp'.evicted)
            stored == lastOp'.dbret.kind = "obj"
        IN /\ (Cardinality(live) >= max_size /\ rows # {}) => deleted >= 1
           /\ lastOp'.evicted \subseteq {r.cache_key : r \in rows}
           /\ Cardinality(rows') = Cardinality(rows) - deleted + (IF stored THEN 1 ELSE 0)
           /\ stored =>
                /\ lastOp'.dbret.row \in rows'
                /\ rows' \ {lastOp'.dbret.row} \subseteq rows
                /\ lastOp'.dbret.row.cache_key = lastOp'.key
                /\ lastOp'.dbret.row.created_at = now
           /\ ~stored => rows' \subseteq rows]_vars

\* C29 witness: the table was full, the eviction deleted the entry that had
\* been read, and the new entry, never read and so first in the eviction
\* order, is in the table
C29_Witness ==
    /\ enabled /\ max_size = 2 /\ lastOp.op = "put" /\ lastOp.dbret.kind = "obj"
    /\ lastOp.evicted # {} /\ Cardinality(rows) = 2
    /\ \E q \in rows : q.cache_key = lastOp.key /\ q.last_hit = NULL /\ q.created_at = now
    /\ \E q \in rows : q.cache_key # lastOp.key /\ q.last_hit # NULL

\* C30: a cache_response executed while fewer than max_size live entries
\* exist deletes no live entry.
C30_NoEvictionBelowMax ==
    [][(Call("put") /\ enabled) =>
        LET live == {r \in rows : r.is_valid /\ (r.expires_at = NULL \/ r.expires_at > now)}
        IN Cardinality(live) < max_size =>
              \A r \in live : r.cache_key \notin lastOp'.evicted]_vars

\* C31: within one eviction the expiry purge runs before any staleness-based
\* deletion: every row past its expires_at is deleted by the purge, the
\* staleness step deletes only rows the purge left, and when the purge removes
\* at least quota rows the eviction deletes no row that has not expired.
C31_PurgeFirst ==
    [][(Call("put") /\ enabled /\ Cardinality({r \in rows : r.is_valid}) >= max_size) =>
        LET quota == IF max_size >= 10 THEN max_size \div 10 ELSE 1
            past == {r \in rows : r.expires_at >= 0 /\ r.expires_at < now}
        IN /\ lastOp'.purged = Cardinality(past)
           /\ \A r \in past : r.cache_key \notin lastOp'.evicted
           /\ lastOp'.purged >= quota =>
                /\ lastOp'.evicted = {}
                /\ \A r \in rows \ past : r \in rows']_vars

\* C31 witness: the eviction of a cache_response purged an expired entry, which
\* filled the quota, and an older entry that had not expired stayed
C31_Witness ==
    /\ enabled /\ lastOp.op = "put" /\ lastOp.purged >= 1 /\ lastOp.evicted = {}
    /\ \E r \in rows : /\ r.cache_key # lastOp.key /\ r.created_at < now
                       /\ r.expires_at >= now

\* C32: with quota = max(1, floor(max_size / 10)), the staleness step of one
\* eviction deletes at most quota - expired_removed rows (none when the purge
\* removed quota rows or more), so one eviction deletes at most
\* max(quota, expired_removed) rows in total.
C32_QuotaBound ==
    [][(Call("put") /\ enabled /\ Cardinality({r \in rows : r.is_valid}) >= max_size) =>
        LET tenth == max_size \div 10
            quota == IF tenth >= 1 THEN tenth ELSE 1
            expired_removed == lastOp'.purged
            stale_removed == Cardinality(lastOp'.evicted)
        IN /\ stale_removed <= (IF quota > expired_removed THEN quota - expired_removed ELSE 0)
           /\ expired_removed + stale_removed <=
                (IF quota > expired_removed THEN quota ELSE expired_removed)
           /\ Cardinality(rows) - Cardinality(rows') <=
                (IF quota > expired_removed THEN quota ELSE expired_removed)]_vars

\* C32 witness: with a quota of 2, the purge of one eviction removed one expired
\* entry and the staleness step removed one more
C32_Witness ==
    /\ max_size = QuotaSize /\ lastOp.op = "put"
    /\ lastOp.purged = 1 /\ Cardinality(lastOp.evicted) = 1

\* the columns of a row that no cache operation is to change
C33_Content(r) == <<r.cache_key, r.input_text, r.response, r.created_at>>

\* C33: no cache operation changes response, input_text, cache_key or
\* created_at of an existing row: a hit changes only hits and last_hit of the
\* row it returns, invalidation (of a key or of all) changes only is_valid,
\* purge and eviction only delete rows, and a cache_response changes the table
\* only by the rows its eviction deletes and the row it inserts.
C33_ContentFrame ==
    [][/\ Call("get") =>
            \A r \in rows :
                IF r.cache_key = lastOp'.key /\ lastOp'.dbret.kind = "obj"
                THEN \E q \in rows' : /\ [q EXCEPT !.hits = r.hits, !.last_hit = r.last_hit] = r
                                      /\ C33_Content(q) = C33_Content(r)
                ELSE r \in rows'
       /\ Call("get") => Cardinality(rows') = Cardinality(rows)
       /\ (Call("invalidate") \/ Call("clear")) =>
            /\ \A r \in rows : \E q \in rows' : /\ [q EXCEPT !.is_valid = r.is_valid] = r
                                                /\ C33_Content(q) = C33_Content(r)
            /\ Cardinality(rows') = Cardinality(rows)
       /\ Call("purge") => rows' \subseteq rows
       /\ Call("stats") => rows' = rows
       /\ Call("put") =>
            /\ \A r \in rows : \/ r \in rows'
                               \/ r.cache_key \in lastOp'.evicted
                               \/ r.expires_at >= 0 /\ r.expires_at < now
            /\ \A q \in rows' : \/ q \in rows
                                \/ /\ lastOp'.dbret.kind = "obj"
                                   /\ q.cache_key = lastOp'.key /\ q.created_at = now
                                   /\ q.hits = 0
                                   /\ \A r \in rows : r.cache_key = q.cache_key =>
                                         \/ r.cache_key \in lastOp'.evicted
                                         \/ r.expires_at >= 0 /\ r.expires_at < now
       /\ lastOp' = lastOp => rows' = rows]_vars

\* C33 witness: a hit has updated hits and last_hit of an entry stored earlier
\* with input_text t2 and response r2, next to another entry that was later
\* tombstoned
C33_Witness ==
    /\ \E r \in rows : /\ r.input_text = "t2" /\ r.response = "r2"
                       /\ r.hits >= 1 /\ r.last_hit > r.created_at
    /\ \E r \in rows : r.input_text = "t1" /\ ~r.is_valid
    /\ lastOp.op = "invalidate"

\* C34: with the calls made one at a time, hits of every row is >= 0 and counts
\* the get_cached_response calls that found the row live since it was created:
\* a new row starts with hits = 0 and last_hit null, a get that finds the row
\* valid and not expired adds exactly 1 to its hits, and a miss, a
\* cache_response, an invalidation, a purge or a statistics call changes the
\* hits of no row.
C34_HitsCount ==
    [][LET found == IF Call("get") /\ enabled
                    THEN {r \in rows : /\ r.cache_key = lastOp'.key /\ r.is_valid
                                       /\ (r.expires_at < 0 \/ r.expires_at > now)}
                    ELSE {}
       IN /\ \A r \in rows \cup rows' : r.hits >= 0
          /\ \A r \in found : \E q \in rows' :
                /\ q.cache_key = r.cache_key /\ q.created_at = r.created_at
                /\ q.hits = r.hits + 1
          /\ \A q \in rows' :
                \/ \E r \in rows \ found : q.cache_key = r.cache_key /\ q.hits = r.hits
                \/ \E r \in found : q.cache_key = r.cache_key /\ q.hits = r.hits + 1
                \/ /\ Call("put") /\ q.cache_key = lastOp'.key /\ q.created_at = now
                   /\ q.hits = 0 /\ q.last_hit < 0]_vars

\* C34 witness: a get has just found an entry live for the second time, next to
\* an entry that was stored, never read and then tombstoned
C34_Witness ==
    /\ lastOp.op = "get" /\ lastOp.dbret.kind = "obj"
    /\ \E r \in rows : r.cache_key = lastOp.key /\ r.hits = 2
    /\ \E r \in rows : ~r.is_valid /\ r.hits = 0 /\ r.last_hit = NULL

\* C35: the cache key that analyze_with_llm uses depends on the model that
\* produces the response: two requests with the same text and prompt type that
\* differ in the LLM model use different cache keys, so that they never read
\* or write the same cache entry.
C35_KeyPerModel ==
    (/\ analysis.cur.made /\ analysis.prev.made
     /\ analysis.cur.text = analysis.prev.text
     /\ analysis.cur.prompt_type = analysis.prev.prompt_type
     /\ analysis.cur.model # analysis.prev.model)
        => analysis.cur.key # analysis.prev.key

\* C36: clean_expired_cache and get_cached_response agree on expiry: at any
\* clock value, a valid row with non-null expires_at is deleted by a
\* clean_expired_cache run at that time exactly when the repository's
\* get_cached_response at that time refuses the row as expired.
C36_ExpiryAgree ==
    [][Call("purge") =>
        \A r \in rows : (r.is_valid /\ r.expires_at # NULL) =>
            LET refused == db_get_cached_response(rows, r.cache_key, now, FALSE).ret.kind = "None"
            IN (r \notin rows') <=> refused]_vars

\* C36 (amended): a clean_expired_cache run at time t deletes a valid row with
\* non-null expires_at exactly when expires_at < t, and the repository's
\* get_cached_response at t refuses it exactly when expires_at <= t: every row
\* the purge deletes is one the get refuses, and the two differ only at
\* t = expires_at, where the get refuses a row that the purge keeps.
C36_Amended ==
    [][Call("purge") =>
        \A r \in rows : (r.is_valid /\ r.expires_at # NULL) =>
            LET refused == db_get_cached_response(rows, r.cache_key, now, FALSE).ret.kind = "None"
            IN /\ (r \notin rows') <=> (r.expires_at < now)
               /\ refused <=> (r.expires_at <= now)
               /\ (r \notin rows') => refused]_vars

\* C36 witness: a purge has deleted one entry and kept a valid entry whose
\* expires_at is the present time, which a get refuses
C36_Witness ==
    /\ lastOp.op = "purge" /\ lastOp.ret = IntVal(1)
    /\ \E r \in rows : /\ r.is_valid /\ r.expires_at = now
                       /\ db_get_cached_response(rows, r.cache_key, now, FALSE).ret.kind = "None"

\* C37: every session that get_session opens is closed on every exit path; it
\* is committed exactly when the body raised nothing, and otherwise it is
\* rolled back and the exception of the body is raised to the caller.
C37_SessionScope ==
    (sess.pc = "idle" /\ sess.last.made) =>
        /\ sess.last.closed /\ sess.closed = sess.opened
        /\ sess.last.committed <=> sess.last.body = "none"
        /\ sess.last.body # "none" =>
              sess.last.rollback_called /\ sess.last.raised = sess.last.body

\* C37 (amended): every session that get_session opens is closed on every exit
\* path; commit() is called exactly when the body raised nothing and the
\* session is committed exactly when that commit raised nothing too; when the
\* body or the commit raises an Exception, rollback() is called and that
\* exception is raised to the caller; an exception of the body that is not an
\* Exception reaches the caller with neither commit() nor rollback() called.
C37_Amended ==
    (sess.pc = "idle" /\ sess.last.made) =>
        LET end == sess.last
            failed == end.raised # "none"
        IN /\ end.closed /\ sess.closed = sess.opened
           /\ end.commit_called <=> end.body = "none"
           /\ end.committed <=> (end.body = "none" /\ ~failed)
           /\ end.committed => ~end.rollback_called
           /\ end.body \in {"OperationalError", "IntegrityError"} =>
                 end.rollback_called /\ end.raised = end.body
           /\ (end.body = "none" /\ failed) => end.rollback_called
           /\ end.body = "KeyboardInterrupt" =>
                 ~end.rollback_called /\ end.raised = end.body
           /\ sess.commits + sess.rollbacks <= sess.closed

\* C37 witness: the body of a session raised nothing, its commit was refused,
\* and the session was rolled back and closed with that error raised, after an
\* earlier session had been committed
C37_Witness ==
    /\ sess.pc = "idle" /\ sess.last.made
    /\ sess.last.body = "none" /\ sess.last.commit_called /\ ~sess.last.committed
    /\ sess.last.rollback_called /\ sess.last.closed
    /\ sess.last.raised = "OperationalError"
    /\ sess.commits = 1 /\ sess.closed = 2

\* C38: once stop_all() has been called, should_stop() is true for every task
\* that was running at that moment for as long as the task has not ended,
\* whatever other TaskManager operations (run_task, wait_all) are called
\* meanwhile.
C38_StopSticks ==
    /\ \A t \in tm.stopping : tm.task[t].state = "running" => tm.should_stop
    /\ (tm.last.op = "should_stop" /\ tm.last.task \in tm.stopping) => tm.last.ret

====
